---- MODULE Spec2Model ----
(***************************************************************************)
(* Model of the conformance diagnostics of great_expectations:             *)
(*   core/expectation_diagnostics/expectation_diagnostics.py               *)
(* The check evaluators are static methods over evidence; each is an       *)
(* operator computed the way the code computes it, and an action applies   *)
(* it to the evidence of the state and stores the CheckMessage it returns. *)
(* Python values are modelled as follows:                                  *)
(*   str -> string, list -> sequence, bool -> BOOLEAN,                     *)
(*   dict (insertion ordered) -> sequence of [key, value] records,         *)
(*   Optional[x] -> << >> for None (or "absent") and <<x>> for a value.    *)
(***************************************************************************)
EXTENDS Integers, Sequences, FiniteSets, TLC

VARIABLES
    test_results,          \* ExpectationDiagnostics.tests
    examples,              \* ExpectationDiagnostics.examples
    description,           \* ExpectationDiagnostics.description
    expectation_instance,  \* the checked unit handed to the instance checks
    results,               \* operation name -> << >> (not evaluated) or <<value returned>>
    calls,                 \* configurations validate_configuration was invoked with
    raised,                \* TRUE once an exception left a check evaluator
    maturity_checklist,    \* ExpectationDiagnostics.maturity_checklist
    execution_engines,     \* ExpectationDiagnostics.execution_engines
    package,               \* a GreatExpectationsContribPackageManifest
    last_call              \* the last manifest method called, with its argument

vars == <<test_results, examples, description, expectation_instance,
          results, calls, raised, maturity_checklist, execution_engines,
          package, last_call>>

----------------------------------------------------------------------------
(* Bounds of the model *)

MaxTests == 4       \* test results of the backend checks
MaxGroups == 2      \* example groups
MaxCases == 2       \* declared test cases of one example group
MaxExecuted == 2    \* executed tests handed to the example-cases check
MaxTierChecks == 2  \* check messages of one maturity tier
MaxDiagnostics == 3 \* diagnostics handed to one _update_expectations call

----------------------------------------------------------------------------
(* Python helpers *)

None == << >>
Some(v) == <<v>>

\* all sequences over S of length 0..n
SeqUpTo(S, n) == UNION {[1..k -> S] : k \in 0..n}

\* mutant of All: any(value) in place of all(value)
All_Any(value) == \E i \in 1..Len(value) : value[i]

\* all(value) for a list of bools
All(value) == \A i \in 1..Len(value) : value[i]

\* value.count(True)
CountTrue(value) == Cardinality({i \in 1..Len(value) : value[i] = TRUE})

\* d.keys() of an insertion-ordered dict
DictKeys(d) == [i \in 1..Len(d) |-> d[i].key]

\* d[k] for a key the dict holds
DictGet(d, k) == d[CHOOSE i \in 1..Len(d) : d[i].key = k].value

\* mutant of DictListAppend: a new key is inserted first
DictListAppend_Front(d, k, v) ==
    IF \E i \in 1..Len(d) : d[i].key = k
    THEN [i \in 1..Len(d) |->
            IF d[i].key = k
            THEN [key |-> k, value |-> Append(d[i].value, v)]
            ELSE d[i]]
    ELSE <<[key |-> k, value |-> <<v>>]>> \o d

\* defaultdict(list): d[k].append(v); a new key is inserted last
DictListAppend(d, k, v) ==
    IF \E i \in 1..Len(d) : d[i].key = k
    THEN [i \in 1..Len(d) |->
            IF d[i].key = k
            THEN [key |-> k, value |-> Append(d[i].value, v)]
            ELSE d[i]]
    ELSE Append(d, [key |-> k, value |-> <<v>>])

\* sep.join(strs)
RECURSIVE Join(_, _)
Join(sep, strs) ==
    IF Len(strs) = 0 THEN ""
    ELSE IF Len(strs) = 1 THEN strs[1]
    ELSE strs[1] \o sep \o Join(sep, Tail(strs))

\* the characters of the modelled strings, in code point order
Alphabet ==
    " \"+,-./0123456789:<=>ABCDEFGHIJKLMNOPQRSTUVWXYZ_abcdefghijklmnopqrstuvwxyz"

\* ord(c)
CharCode(c) == CHOOSE i \in 1..Len(Alphabet) : SubSeq(Alphabet, i, i) = c

\* a < b for two str
RECURSIVE StrLess(_, _)
StrLess(a, b) ==
    IF Len(b) = 0 THEN FALSE
    ELSE IF Len(a) = 0 THEN TRUE
    ELSE IF SubSeq(a, 1, 1) # SubSeq(b, 1, 1)
         THEN CharCode(SubSeq(a, 1, 1)) < CharCode(SubSeq(b, 1, 1))
         ELSE StrLess(SubSeq(a, 2, Len(a)), SubSeq(b, 2, Len(b)))

\* sorted(list) for a list of str: each element goes before the first
\* greater one
RECURSIVE InsertSorted(_, _)
InsertSorted(x, list) ==
    IF Len(list) = 0 THEN <<x>>
    ELSE IF StrLess(x, Head(list)) THEN <<x>> \o list
    ELSE <<Head(list)>> \o InsertSorted(x, Tail(list))

RECURSIVE Sorted(_)
Sorted(list) ==
    IF Len(list) = 0 THEN << >>
    ELSE InsertSorted(Head(list), Sorted(Tail(list)))

\* ExpectationDiagnosticCheckMessage(message=, passed=, sub_messages=);
\* sub_messages defaults to the empty list
ExpectationDiagnosticCheckMessage(message, passed, sub_messages) ==
    [message |-> message, passed |-> passed, sub_messages |-> sub_messages]

SubMessage(message, passed) == [message |-> message, passed |-> passed]

----------------------------------------------------------------------------
(* Backend checks *)

\* for test_result in test_results:
\*     backend_results[test_result.backend].append(test_result.test_passed)
RECURSIVE GroupByBackend(_, _)
GroupByBackend(trs, backend_results) ==
    IF Len(trs) = 0 THEN backend_results
    ELSE GroupByBackend(Tail(trs),
            DictListAppend(backend_results, Head(trs).backend, Head(trs).test_passed))

\* mutant of FailingNames: each failing title is put in front of the list
RECURSIVE FailingNames_Prepend(_)
FailingNames_Prepend(trs) ==
    IF Len(trs) = 0 THEN << >>
    ELSE IF Head(trs).test_passed = FALSE
         THEN FailingNames_Prepend(Tail(trs)) \o <<Head(trs).test_title>>
         ELSE FailingNames_Prepend(Tail(trs))

\* failing_names: titles of the results with test_passed is False, in order
RECURSIVE FailingNames(_)
FailingNames(trs) ==
    IF Len(trs) = 0 THEN << >>
    ELSE IF Head(trs).test_passed = FALSE
         THEN <<Head(trs).test_title>> \o FailingNames(Tail(trs))
         ELSE FailingNames(Tail(trs))

AllPassingMessage(backend_results, backend) ==
    SubMessage("All " \o ToString(Len(DictGet(backend_results, backend)))
                 \o " tests for " \o backend \o " are passing", TRUE)

\* mutant of OnlyPassingMessage: counts the failing tests, not the passing ones
OnlyPassingMessage_CountsFailing(backend_results, backend) ==
    SubMessage("Only " \o ToString(Len(DictGet(backend_results, backend))
                                    - CountTrue(DictGet(backend_results, backend)))
                 \o " / " \o ToString(Len(DictGet(backend_results, backend)))
                 \o " tests for " \o backend \o " are passing", FALSE)

OnlyPassingMessage(backend_results, backend) ==
    SubMessage("Only " \o ToString(CountTrue(DictGet(backend_results, backend)))
                 \o " / " \o ToString(Len(DictGet(backend_results, backend)))
                 \o " tests for " \o backend \o " are passing", FALSE)

\* mutant of NoTestResultsMessage: the sub-message is marked as passing
NoTestResultsMessage_Passing == SubMessage("There are no test results", TRUE)

NoTestResultsMessage == SubMessage("There are no test results", FALSE)

\* mutant of BackendsPassingAllTests: one passing test is enough
BackendsPassingAllTests_OnePassing(backend_results) ==
    SelectSeq(DictKeys(backend_results),
              LAMBDA b : CountTrue(DictGet(backend_results, b)) > 0)

\* backends_passing_all_tests of the at-least-one check: the list comprehension
\* over backend_results.items() with all(value), in dict order
BackendsPassingAllTests(backend_results) ==
    SelectSeq(DictKeys(backend_results),
              LAMBDA b : All(DictGet(backend_results, b)))

\* backends_passing_all_tests of the all-applicable check: the loop over
\* backend_results.items() that appends the backends with all(value)
RECURSIVE PassingBackendsLoop(_, _)
PassingBackendsLoop(items, backends_passing_all_tests) ==
    IF Len(items) = 0 THEN backends_passing_all_tests
    ELSE PassingBackendsLoop(Tail(items),
            IF All(Head(items).value)
            THEN Append(backends_passing_all_tests, Head(items).key)
            ELSE backends_passing_all_tests)

\* mutant of BackendsFailingAnyTests: only the backends without a passing test
BackendsFailingAnyTests_NonePassing(backend_results) ==
    SelectSeq(DictKeys(backend_results),
              LAMBDA b : CountTrue(DictGet(backend_results, b)) = 0)

\* backends_failing_any_tests: the other keys, in dict order
BackendsFailingAnyTests(backend_results) ==
    SelectSeq(DictKeys(backend_results),
              LAMBDA b : ~All(DictGet(backend_results, b)))

check_core_logic_for_at_least_one_execution_engine(trs) ==
    LET backend_results == GroupByBackend(trs, << >>)
        backends_passing_all_tests == BackendsPassingAllTests(backend_results)
        passed == Len(backends_passing_all_tests) > 0
        sub1 == IF Len(backends_passing_all_tests) > 0
                THEN <<AllPassingMessage(backend_results, backends_passing_all_tests[1])>>
                ELSE << >>
        sub2 == IF Len(trs) = 0 THEN Append(sub1, NoTestResultsMessage) ELSE sub1
    IN ExpectationDiagnosticCheckMessage(
           "Has core logic and passes tests on at least one Execution Engine",
           passed, sub2)

check_core_logic_for_all_applicable_execution_engines(trs) ==
    LET backend_results == GroupByBackend(trs, << >>)
        failing_names == FailingNames(trs)
        backends_passing_all_tests == PassingBackendsLoop(backend_results, << >>)
        backends_failing_any_tests == BackendsFailingAnyTests(backend_results)
        passed == Len(backends_passing_all_tests) > 0
                  /\ ~(Len(backends_failing_any_tests) > 0)
        sub1 == [i \in 1..Len(backends_passing_all_tests) |->
                    AllPassingMessage(backend_results, backends_passing_all_tests[i])]
        sub2 == sub1 \o [i \in 1..Len(backends_failing_any_tests) |->
                    OnlyPassingMessage(backend_results, backends_failing_any_tests[i])]
        sub3 == IF Len(failing_names) > 0
                THEN Append(sub2, SubMessage("Failing: " \o Join(", ", failing_names), FALSE))
                ELSE sub2
        sub4 == IF Len(trs) = 0 THEN Append(sub3, NoTestResultsMessage) ELSE sub3
    IN ExpectationDiagnosticCheckMessage(
           "Has core logic that passes tests for all applicable Execution Engines and SQL dialects",
           passed, sub4)

----------------------------------------------------------------------------
(* Docstring check *)

\* description["short_description"] if the key is present, else None
ShortDescription(desc) ==
    IF "short_description" \in DOMAIN desc THEN desc.short_description ELSE None

\* mutant of UninformativeDescriptions: the bare newline is left out
UninformativeDescriptions_NoNewline ==
    {Some(""), Some("TODO: Add a docstring here"), None}

\* the set literal {"", "\n", "TODO: Add a docstring here", None}
UninformativeDescriptions ==
    {Some(""), Some("\n"), Some("TODO: Add a docstring here"), None}

check_docstring(desc) ==
    LET message == "Has a docstring, including a one-line short description"
        short_description == ShortDescription(desc)
    IN IF short_description \notin UninformativeDescriptions
       THEN ExpectationDiagnosticCheckMessage(message, TRUE,
                <<SubMessage("\"" \o short_description[1] \o "\"", TRUE)>>)
       ELSE ExpectationDiagnosticCheckMessage(message, FALSE, << >>)

----------------------------------------------------------------------------
(* Example-cases check *)

\* test["output"].get("success")
GetSuccess(test) ==
    IF "success" \in DOMAIN test.output THEN Some(test.output.success) ELSE None

\* mutant of CountCases: every case that is not positive counts as negative
RECURSIVE CountCases_ElseNegative(_, _)
CountCases_ElseNegative(tests, counts) ==
    IF Len(tests) = 0 THEN counts
    ELSE LET success == GetSuccess(Head(tests))
         IN CountCases_ElseNegative(Tail(tests),
                IF success = Some(TRUE) THEN <<counts[1] + 1, counts[2]>>
                ELSE <<counts[1], counts[2] + 1>>)

\* the inner loop over test_data_cases["tests"]; counts is <<positive, negative>>
RECURSIVE CountCases(_, _)
CountCases(tests, counts) ==
    IF Len(tests) = 0 THEN counts
    ELSE LET success == GetSuccess(Head(tests))
         IN CountCases(Tail(tests),
                IF success = Some(TRUE) THEN <<counts[1] + 1, counts[2]>>
                ELSE IF success = Some(FALSE) THEN <<counts[1], counts[2] + 1>>
                ELSE counts)

RECURSIVE CountGroups(_, _)
CountGroups(exs, counts) ==
    IF Len(exs) = 0 THEN counts
    ELSE CountGroups(Tail(exs), CountCases(Head(exs).tests, counts))

count_positive_and_negative_example_cases(exs) == CountGroups(exs, <<0, 0>>)

RECURSIVE count_unexpected_test_cases(_)
count_unexpected_test_cases(test_diagnostics) ==
    IF Len(test_diagnostics) = 0 THEN 0
    ELSE (IF Head(test_diagnostics).test_passed = TRUE THEN 0 ELSE 1)
         + count_unexpected_test_cases(Tail(test_diagnostics))

check_example_cases(exs, tests) ==
    LET counts == count_positive_and_negative_example_cases(exs)
        positive_case_count == counts[1]
        negative_case_count == counts[2]
        unexpected_case_count == count_unexpected_test_cases(tests)
        passed == (positive_case_count > 0)
                  /\ (negative_case_count > 0)
                  /\ (unexpected_case_count = 0)
    IN ExpectationDiagnosticCheckMessage(
           "Has at least one positive and negative example case, and all test cases pass",
           passed, << >>)

----------------------------------------------------------------------------
(* Input-validation check *)

\* examples[0]["tests"][0] raises IndexError
FirstTestMissing(exs) == Len(exs) = 0 \/ Len(exs[1].tests) = 0

\* mutant of DefinesValidateConfiguration: an inherited method counts too
DefinesValidateConfiguration_Inherited(instance) ==
    "validate_configuration" \in instance.class_dict \cup instance.inherited

\* "validate_configuration" in expectation_instance.__class__.__dict__
DefinesValidateConfiguration(instance) ==
    "validate_configuration" \in instance.class_dict

\* The evaluation of _check_input_validation:
\*   returned : <<CheckMessage>>, or << >> when an exception left the evaluator
\*   invoked  : the configurations validate_configuration was called with
check_input_validation(instance, exs) ==
    LET message == "Has basic input validation and type checking"
    IN IF FirstTestMissing(exs)
       THEN [returned |-> Some(ExpectationDiagnosticCheckMessage(message, FALSE,
                <<SubMessage("No example found to get kwargs for ExpectationConfiguration",
                             FALSE)>>)),
             invoked |-> << >>]
       ELSE IF ~DefinesValidateConfiguration(instance)
       THEN [returned |-> Some(ExpectationDiagnosticCheckMessage(message, FALSE,
                <<SubMessage("No validate_configuration method defined", FALSE)>>)),
             invoked |-> << >>]
       ELSE LET first_test == exs[1].tests[1]
                expectation_config == [expectation_type |-> instance.expectation_type,
                                       kwargs |-> first_test.input]
                outcome == instance.validate_configuration[expectation_config.kwargs]
            IN [returned |-> IF outcome.raises THEN None
                             ELSE Some(ExpectationDiagnosticCheckMessage(
                                          message, outcome.value, << >>)),
                invoked |-> <<expectation_config>>]

----------------------------------------------------------------------------
(* Renderer check *)

\* s.split("_"), scanning s from character i on
RECURSIVE SplitFrom(_, _, _, _)
SplitFrom(s, i, cur, acc) ==
    IF i > Len(s) THEN Append(acc, cur)
    ELSE IF SubSeq(s, i, i) = "_" THEN SplitFrom(s, i + 1, "", Append(acc, cur))
    ELSE SplitFrom(s, i + 1, cur \o SubSeq(s, i, i), acc)

SplitUnderscore(s) == SplitFrom(s, 1, "", << >>)

StartsWith(s, prefix) ==
    Len(s) >= Len(prefix) /\ SubSeq(s, 1, Len(prefix)) = prefix

EndsWith(s, suffix) ==
    Len(s) >= Len(suffix) /\ SubSeq(s, Len(s) - Len(suffix) + 1, Len(s)) = suffix

\* dir(expectation_instance): the names of the class and of its parents
Dir(instance) == instance.class_dict \cup instance.inherited

\* mutant of RendererNames: the leading underscore is not required
RendererNames_AnyPrefix(instance) ==
    {name \in Dir(instance) : EndsWith(name, "renderer")}

\* renderer_names
RendererNames(instance) ==
    {name \in Dir(instance) : EndsWith(name, "renderer") /\ StartsWith(name, "_")}

\* renderer_types: name.split("_")[1] of every renderer name
RendererTypes(instance) ==
    {SplitUnderscore(name)[2] : name \in RendererNames(instance)}

check_renderer_methods(instance) ==
    LET all_renderer_types == {"diagnostic", "prescriptive"}
        renderer_types == RendererTypes(instance)
        passed == (renderer_types \ {"question", "descriptive"}) = all_renderer_types
    IN ExpectationDiagnosticCheckMessage(
           "Has both statement Renderers: prescriptive and diagnostic", passed, << >>)

----------------------------------------------------------------------------
(* Linting check *)

\* mutant of check_linting: a unit with both statement renderers passes
check_linting_RendererBased(instance) ==
    ExpectationDiagnosticCheckMessage("Passes all linting checks",
        check_renderer_methods(instance).passed, << >>)

\* the evaluator does not read the unit it is given
check_linting(instance) ==
    ExpectationDiagnosticCheckMessage("Passes all linting checks", FALSE, << >>)

----------------------------------------------------------------------------
(* Checklist renderer *)

\* the checkmark glyph U+2714, one character, written here in ASCII
CheckMark == "+"

\* the loop over check["sub_messages"]
RECURSIVE SubMessageLines(_, _)
SubMessageLines(sub_messages, output_message) ==
    IF Len(sub_messages) = 0 THEN output_message
    ELSE SubMessageLines(Tail(sub_messages),
            IF Head(sub_messages).passed
            THEN output_message \o "\n    " \o CheckMark \o " " \o Head(sub_messages).message
            ELSE output_message \o "\n      " \o Head(sub_messages).message)

\* the loop over checks
RECURSIVE CheckLines(_, _)
CheckLines(checks, output_message) ==
    IF Len(checks) = 0 THEN output_message
    ELSE CheckLines(Tail(checks),
            SubMessageLines(Head(checks).sub_messages,
                IF Head(checks).passed
                THEN output_message \o "\n " \o CheckMark \o " " \o Head(checks).message
                ELSE output_message \o "\n   " \o Head(checks).message))

\* mutant of convert_checks_into_output_message: the tiers are taken from
\* production down to experimental
convert_checks_into_output_message_TiersReversed(class_name, maturity_messages) ==
    CheckLines(maturity_messages.production \o maturity_messages.beta
                   \o maturity_messages.experimental,
               "Completeness checklist for " \o class_name \o ":") \o "\n"

convert_checks_into_output_message(class_name, maturity_messages) ==
    LET checks == maturity_messages.experimental \o maturity_messages.beta
                      \o maturity_messages.production
    IN CheckLines(checks, "Completeness checklist for " \o class_name \o ":") \o "\n"

generate_checklist(desc, checklist) ==
    convert_checks_into_output_message(desc.camel_name, checklist)

----------------------------------------------------------------------------
(* Serialization adapter *)

\* dataclasses.asdict(self), for the fields of the report the model holds
asdict(report) ==
    [examples |-> report.examples,
     description |-> report.description,
     execution_engines |-> report.execution_engines,
     tests |-> report.tests,
     maturity_checklist |-> report.maturity_checklist]

\* convert_to_json_serializable(data): the report holds plain data already
convert_to_json_serializable(data) == data

\* [engine for engine, _bool in result["execution_engines"].items() if _bool is True]
RECURSIVE ApplicableEngines(_)
ApplicableEngines(items) ==
    IF Len(items) = 0 THEN << >>
    ELSE (IF Head(items).value = TRUE THEN <<Head(items).key>> ELSE << >>)
         \o ApplicableEngines(Tail(items))

\* mutant of to_json_dict: the engine list is not sorted
to_json_dict_Unsorted(report) ==
    LET result == convert_to_json_serializable(asdict(report))
    IN [f \in DOMAIN result \cup {"execution_engines_list"} |->
            IF f = "execution_engines_list"
            THEN ApplicableEngines(result.execution_engines)
            ELSE result[f]]

to_json_dict(report) ==
    LET result == convert_to_json_serializable(asdict(report))
    IN [f \in DOMAIN result \cup {"execution_engines_list"} |->
            IF f = "execution_engines_list"
            THEN Sorted(ApplicableEngines(result.execution_engines))
            ELSE result[f]]

----------------------------------------------------------------------------
(* Package manifest *)

\* class Maturity(str, Enum), in declaration order
Maturity == <<"CONCEPT_ONLY", "EXPERIMENTAL", "BETA", "PRODUCTION">>

\* Maturity[name]
MaturityMember(name) == Maturity[CHOOSE i \in 1..Len(Maturity) : Maturity[i] = name]

UpperCaseLetters == "ABCDEFGHIJKLMNOPQRSTUVWXYZ"
LowerCaseLetters == "abcdefghijklmnopqrstuvwxyz"

\* k.lower()
RECURSIVE Lower(_)
Lower(k) ==
    IF Len(k) = 0 THEN ""
    ELSE LET c == SubSeq(k, 1, 1)
             upper == {i \in 1..Len(UpperCaseLetters) : SubSeq(UpperCaseLetters, i, i) = c}
         IN (IF upper = {} THEN c
             ELSE LET i == CHOOSE i \in upper : TRUE IN SubSeq(LowerCaseLetters, i, i))
            \o Lower(SubSeq(k, 2, Len(k)))

\* maturity.name.lower() of every member of Maturity
LowerCaseName == [name \in {Maturity[i] : i \in 1..Len(Maturity)} |-> Lower(name)]

\* d.get(k): None for a key the dict does not hold
Get(d, k) == IF \E i \in 1..Len(d) : d[i].key = k THEN Some(DictGet(d, k)) ELSE None

\* `if value := d.get(k)`: the key is held and its value is not empty
Truthy(optional) == optional # None /\ optional[1] # << >>

\* self.attr = value, also for an attribute the dataclass does not declare
SetAttr(self, attr, value) ==
    [a \in DOMAIN self \cup {attr} |-> IF a = attr THEN value ELSE self[a]]

\* status = {maturity.name: 0 for maturity in Maturity}
ZeroStatus == [i \in 1..Len(Maturity) |-> [key |-> Maturity[i], value |-> 0]]

\* status[expectation_maturity] += 1 for each diagnostic, in order
RECURSIVE CountStatus(_, _)
CountStatus(diagnostics, status) ==
    IF Len(diagnostics) = 0 THEN status
    ELSE CountStatus(Tail(diagnostics),
            [i \in 1..Len(status) |->
                IF status[i].key = Head(diagnostics).library_metadata.maturity
                THEN [key |-> status[i].key, value |-> status[i].value + 1]
                ELSE status[i]])

\* sum(status.values())
RECURSIVE SumValues(_)
SumValues(status) ==
    IF Len(status) = 0 THEN 0 ELSE Head(status).value + SumValues(Tail(status))

\* mutant of MaxKey: the last key holding the greatest value
RECURSIVE MaxKey_LastMaximum(_, _)
MaxKey_LastMaximum(status, best) ==
    IF Len(status) = 0 THEN best.key
    ELSE MaxKey_LastMaximum(Tail(status),
            IF Head(status).value >= best.value THEN Head(status) ELSE best)

\* max(status, key=status.get) from the first item on: a later key replaces
\* the best one only with a greater value
RECURSIVE MaxKey(_, _)
MaxKey(status, best) ==
    IF Len(status) = 0 THEN best.key
    ELSE MaxKey(Tail(status),
            IF Head(status).value > best.value THEN Head(status) ELSE best)

\* PackageCompletenessStatus(**lowercase_status), with lowercase_status["total"]
PackageCompletenessStatus(status) ==
    LET lowercase_status ==
            [i \in 1..Len(status) |->
                [key |-> LowerCaseName[status[i].key], value |-> status[i].value]]
            \o <<[key |-> "total", value |-> SumValues(status)]>>
    IN [concept_only |-> DictGet(lowercase_status, "concept_only"),
        experimental |-> DictGet(lowercase_status, "experimental"),
        beta |-> DictGet(lowercase_status, "beta"),
        production |-> DictGet(lowercase_status, "production"),
        total |-> DictGet(lowercase_status, "total")]

\* the body of _update_expectations from the status the counting starts with
UpdateExpectationsFrom(self, diagnostics, start) ==
    LET expectations == diagnostics
        Assigned(status) ==
            LET maturity == MaxKey(Tail(status), Head(status))
            IN [self EXCEPT !.expectations = Some(expectations),
                            !.expectation_count = Some(Len(expectations)),
                            !.status = Some(PackageCompletenessStatus(status)),
                            !.maturity = Some(MaturityMember(maturity))]
    IN \* the loop over diagnostics runs once, its status is then read
       CHOOSE updated \in {Assigned(status) : status \in {CountStatus(diagnostics, start)}} :
            TRUE

\* mutant of update_expectations: the counters go on from the manifest's status
update_expectations_Accumulating(self, diagnostics) ==
    UpdateExpectationsFrom(self, diagnostics,
        IF self.status = None THEN ZeroStatus
        ELSE [i \in 1..Len(Maturity) |->
                [key |-> Maturity[i], value |-> self.status[1][LowerCaseName[Maturity[i]]]]])

update_expectations(self, diagnostics) ==
    UpdateExpectationsFrom(self, diagnostics, ZeroStatus)

\* the files of the working directory: a requirements file, two package
\* info files and a package info file without content
ExistingPaths == {"requirements.txt", "package_info.yml", "general_only.yml", "empty.yml"}

\* os.path.exists(path)
os_path_exists(path) == path \in ExistingPaths

\* the lines of requirements.txt: the project name and the pins of each
RequirementLines ==
    <<[project_name |-> "altair", pins |-> {<<">=", "4.0.0">>, <<"<", "5">>}],
      [project_name |-> "Click", pins |-> {<<">=", "7.1.2">>}],
      [project_name |-> "numpy", pins |-> {}]>>

\* every order of the elements of S
Orderings(S) ==
    {order \in [1..Cardinality(S) -> S] :
        \A i, j \in 1..Cardinality(S) : order[i] = order[j] => i = j}

\* list(pkg_resources.parse_requirements(f)): Requirement.specs is built from
\* a set of specifiers, so the order of the pins of a line differs from run
\* to run; every outcome of the parse
parse_requirements(path) ==
    IF path = "requirements.txt"
    THEN {[i \in 1..Len(RequirementLines) |->
                [project_name |-> RequirementLines[i].project_name, specs |-> specs[i]]] :
            specs \in {choice \in [1..Len(RequirementLines) ->
                                    UNION {Orderings(RequirementLines[i].pins) :
                                            i \in 1..Len(RequirementLines)}] :
                        \A i \in 1..Len(RequirementLines) :
                            choice[i] \in Orderings(RequirementLines[i].pins)}}
    ELSE {<< >>}

\* yaml.load(f.read()): a dict, or None for a file without content
yaml_load(path) ==
    CASE path = "package_info.yml" ->
            <<[key |-> "general",
               value |-> <<[key |-> "package_name", value |-> "my_package"],
                           [key |-> "icon", value |-> "icon.png"],
                           [key |-> "description", value |-> "My package"]>>],
              [key |-> "code_owners",
               value |-> << <<[key |-> "username", value |-> "jdoe"]>> >>],
              [key |-> "domain_experts",
               value |-> << <<[key |-> "full_name", value |-> "Charles Dickens"]>> >>]>>
      [] path = "general_only.yml" ->
            <<[key |-> "general",
               value |-> <<[key |-> "package_name", value |-> "other_package"]>>]>>
      [] OTHER -> None

\* a < b for two pins, each a tuple (operator, version)
PinLess(a, b) == StrLess(a[1], b[1]) \/ (a[1] = b[1] /\ StrLess(a[2], b[2]))

\* sorted(requirement.specs)
RECURSIVE InsertPin(_, _)
InsertPin(pin, specs) ==
    IF Len(specs) = 0 THEN <<pin>>
    ELSE IF PinLess(pin, Head(specs)) THEN <<pin>> \o specs
    ELSE <<Head(specs)>> \o InsertPin(pin, Tail(specs))

RECURSIVE SortedPins(_)
SortedPins(specs) ==
    IF Len(specs) = 0 THEN << >>
    ELSE InsertPin(Head(specs), SortedPins(Tail(specs)))

convert_to_dependency(requirement) ==
    LET name == requirement.project_name
        pypi_url == "https://pypi.org/project/" \o name
        pins == SortedPins(requirement.specs)
        version == IF Len(requirement.specs) > 0
                   THEN Some(Join(", ", [i \in 1..Len(pins) |-> pins[i][1] \o pins[i][2]]))
                   ELSE None
    IN [text |-> name, link |-> pypi_url, version |-> version]

\* mutant of update_dependencies: a missing file empties the dependencies
update_dependencies_ClearsOnMissing(self, path, requirements) ==
    IF ~os_path_exists(path) THEN [self EXCEPT !.dependencies = Some(<< >>)]
    ELSE [self EXCEPT !.dependencies =
            Some([i \in 1..Len(requirements) |-> convert_to_dependency(requirements[i])])]

\* _update_dependencies(path), requirements being what parse_requirements
\* gives for the file in this run
update_dependencies(self, path, requirements) ==
    IF ~os_path_exists(path) THEN self
    ELSE [self EXCEPT !.dependencies =
            Some([i \in 1..Len(requirements) |-> convert_to_dependency(requirements[i])])]

\* GitHubUser(**owner)
GitHubUser(owner) ==
    [username |-> DictGet(owner, "username"), full_name |-> Get(owner, "full_name")]

\* DomainExpert(**expert)
DomainExpert(expert) ==
    [full_name |-> DictGet(expert, "full_name"),
     social_links |-> Get(expert, "social_links"),
     picture |-> Get(expert, "picture")]

update_from_package_info(self, path) ==
    IF ~os_path_exists(path) THEN self
    ELSE LET data == yaml_load(path)
         IN IF data = << >> THEN self
            ELSE LET general == Get(data, "general")
                     code_owners == Get(data, "code_owners")
                     domain_experts == Get(data, "domain_experts")
                     with_general ==
                        IF Truthy(general)
                        THEN [self EXCEPT !.package_name = Get(general[1], "package_name"),
                                          !.icon = Get(general[1], "icon"),
                                          !.description = Get(general[1], "description")]
                        ELSE self
                     with_owners ==
                        IF Truthy(code_owners)
                        THEN SetAttr(with_general, "code_owners",
                                [i \in 1..Len(code_owners[1]) |-> GitHubUser(code_owners[1][i])])
                        ELSE with_general
                 IN IF Truthy(domain_experts)
                    THEN [with_owners EXCEPT !.domain_experts =
                            Some([i \in 1..Len(domain_experts[1]) |->
                                    DomainExpert(domain_experts[1][i])])]
                    ELSE with_owners

\* GitHubUser(contributor)
GitHubUserNamed(username) == [username |-> username, full_name |-> None]

\* the loops of _update_contributors: a user joins the list unless it holds
\* an equal one
RECURSIVE AppendContributors(_, _)
AppendContributors(names, contributors) ==
    IF Len(names) = 0 THEN contributors
    ELSE AppendContributors(Tail(names),
            IF \E i \in 1..Len(contributors) : contributors[i] = GitHubUserNamed(Head(names))
            THEN contributors
            ELSE Append(contributors, GitHubUserNamed(Head(names))))

RECURSIVE GatherContributors(_, _)
GatherContributors(diagnostics, contributors) ==
    IF Len(diagnostics) = 0 THEN contributors
    ELSE GatherContributors(Tail(diagnostics),
            AppendContributors(Head(diagnostics).library_metadata.contributors, contributors))

update_contributors(self, diagnostics) ==
    [self EXCEPT !.contributors = Some(GatherContributors(diagnostics, << >>))]

\* _update_attrs_with_diagnostics: the four updaters in their order, on the
\* two files the code names
update_attrs_with_diagnostics(self, diagnostics, requirements) ==
    update_contributors(
        update_dependencies(
            update_expectations(
                update_from_package_info(self, "package_info.yml"),
                diagnostics),
            "requirements.txt", requirements),
        diagnostics)

----------------------------------------------------------------------------
(* Evidence *)

Backends == {"pandas", "sqlalchemy"}
Titles == {"expect_x", "expect_y"}

TestResult == [backend : Backends, test_title : Titles, test_passed : BOOLEAN]

\* executed tests as the example-cases check reads them: only test_passed matters
ExecutedTest == [backend : {"pandas"}, test_title : {"expect_x"}, test_passed : BOOLEAN]

\* the output of a declared test case: a dict that may lack the key "success"
Outputs == {[success |-> TRUE], [success |-> FALSE], << >>}
Inputs == {[column |-> "a"], [column |-> "b"]}

\* example groups whose cases vary in their declared output
OutputCase == [input : {[column |-> "a"]}, output : Outputs]
OutputGroup == [tests : SeqUpTo(OutputCase, MaxCases)]

\* example groups whose cases vary in their input kwargs
InputCase == [input : Inputs, output : {[success |-> TRUE]}]
InputGroup == [tests : SeqUpTo(InputCase, MaxCases)]

\* description bundles: the key absent, None, or a string
Descriptions ==
    {<< >>, [short_description |-> None]}
    \cup {[short_description |-> Some(text)] :
            text \in {"", "\n", "TODO: Add a docstring here", " ", "\n\n", "TODO",
                      "None", "Expect column values to be even",
                      "todo: add a docstring here"}}

\* what validate_configuration does with a configuration of given kwargs
Outcomes == {[raises |-> FALSE, value |-> TRUE], [raises |-> FALSE, value |-> FALSE],
             [raises |-> TRUE, value |-> FALSE]}

\* member names a checked unit may define itself
OwnMemberNames ==
    {"_prescriptive_renderer", "_diagnostic_observed_value_renderer",
     "_diagnostic_status_icon_renderer", "_question_renderer",
     "_descriptive_renderer", "_atomic_renderer", "_prescriptive_summary",
     "diagnostic_renderer"}

\* member names it may inherit
InheritedMemberNames ==
    {{}, {"validate_configuration"},
     {"validate_configuration", "_diagnostic_unexpected_table_renderer"}}

CheckNames == {"at_least_one", "all_applicable", "docstring", "example_cases",
               "input_validation", "renderer_methods", "linting"}

OperationNames == CheckNames \cup {"generate_checklist", "to_json_dict"}

NotEvaluated == [c \in OperationNames |-> None]

\* evidence a specification leaves fixed
DefaultTestResults == << >>
DefaultExamples == << >>
DefaultDescription == << >>
\* GreatExpectationsContribPackageManifest(): every declared field is None
NewManifest ==
    [package_name |-> None, icon |-> None, description |-> None,
     expectations |-> None, expectation_count |-> None, dependencies |-> None,
     maturity |-> None, status |-> None, owners |-> None, contributors |-> None,
     domain_experts |-> None, version |-> None]

\* diagnostics of the manifest: the maturity and the contributors of the
\* library metadata; those of any maturity here name no contributor
Diagnostic ==
    [library_metadata : [maturity : {Maturity[i] : i \in 1..Len(Maturity)},
                         contributors : {<< >>}]]

\* what retrieve_package_expectations_diagnostics hands over: nothing when
\* the retrieval failed, or the diagnostics of a package of three
\* PRODUCTION expectations, or of one BETA expectation
PackageDiagnostics ==
    {<< >>,
     <<[library_metadata |-> [maturity |-> "PRODUCTION", contributors |-> <<"@jdoe">>]],
       [library_metadata |-> [maturity |-> "PRODUCTION",
                              contributors |-> <<"@jdoe", "@asmith">>]],
       [library_metadata |-> [maturity |-> "PRODUCTION", contributors |-> << >>]]>>,
     <<[library_metadata |-> [maturity |-> "BETA", contributors |-> <<"@asmith">>]]>>}

RequirementsPaths == {"requirements.txt", "my_fake_path.txt"}
PackageInfoPaths == {"package_info.yml", "general_only.yml", "empty.yml", "my_fake_path.yml"}
DefaultMaturityChecklist == [experimental |-> << >>, beta |-> << >>, production |-> << >>]
DefaultExecutionEngines == << >>
DefaultInstance ==
    [class_dict |-> {}, inherited |-> {"validate_configuration"},
     expectation_type |-> "expect_column_values_to_be_even",
     validate_configuration |-> [k \in Inputs |-> [raises |-> FALSE, value |-> TRUE]]]

\* check messages a maturity checklist holds, per tier: results of the evaluators
ExperimentalChecks ==
    {check_docstring([short_description |-> Some("Expect column values to be even")]),
     check_docstring([short_description |-> Some("\n\n")])}
BetaChecks ==
    {check_core_logic_for_at_least_one_execution_engine(<< >>),
     check_core_logic_for_at_least_one_execution_engine(
         <<[backend |-> "pandas", test_title |-> "expect_x", test_passed |-> TRUE]>>)}
ProductionChecks ==
    {check_core_logic_for_all_applicable_execution_engines(
         <<[backend |-> "pandas", test_title |-> "expect_x", test_passed |-> TRUE],
           [backend |-> "sqlalchemy", test_title |-> "expect_y", test_passed |-> FALSE]>>),
     check_linting(DefaultInstance)}

MaturityChecklists ==
    [experimental : SeqUpTo(ExperimentalChecks, MaxTierChecks),
     beta : SeqUpTo(BetaChecks, MaxTierChecks),
     production : SeqUpTo(ProductionChecks, MaxTierChecks)]

CamelNames == {"ExpectColumnValuesToBeEven"}

\* execution-engine applicability: a dict from engine name to bool, in any
\* insertion order
Engines == {"PandasExecutionEngine", "SqlAlchemyExecutionEngine", "SparkDFExecutionEngine"}

EngineDicts ==
    {d \in SeqUpTo([key : Engines, value : BOOLEAN], Cardinality(Engines)) :
        \A i, j \in 1..Len(d) : d[i].key = d[j].key => i = j}

\* maturity checklists of the serialized reports
JsonChecklists ==
    {DefaultMaturityChecklist,
     [experimental |-> <<check_docstring([short_description |-> Some("\n\n")])>>,
      beta |-> <<check_core_logic_for_at_least_one_execution_engine(<< >>)>>,
      production |-> <<check_linting(DefaultInstance)>>]}

\* the ExpectationDiagnostics of the state
Report ==
    [examples |-> examples, description |-> description,
     execution_engines |-> execution_engines, tests |-> test_results,
     maturity_checklist |-> maturity_checklist]

----------------------------------------------------------------------------
(* Actions: one per check evaluator *)

CheckAtLeastOne ==
    /\ results["at_least_one"] = None
    /\ results' = [results EXCEPT !["at_least_one"] =
            Some(check_core_logic_for_at_least_one_execution_engine(test_results))]
    /\ UNCHANGED <<test_results, examples, description, expectation_instance,
                   calls, raised, maturity_checklist, execution_engines,
                   package, last_call>>

CheckAllApplicable ==
    /\ results["all_applicable"] = None
    /\ results' = [results EXCEPT !["all_applicable"] =
            Some(check_core_logic_for_all_applicable_execution_engines(test_results))]
    /\ UNCHANGED <<test_results, examples, description, expectation_instance,
                   calls, raised, maturity_checklist, execution_engines,
                   package, last_call>>

CheckDocstring ==
    /\ results["docstring"] = None
    /\ results' = [results EXCEPT !["docstring"] = Some(check_docstring(description))]
    /\ UNCHANGED <<test_results, examples, description, expectation_instance,
                   calls, raised, maturity_checklist, execution_engines,
                   package, last_call>>

CheckExampleCases ==
    /\ results["example_cases"] = None
    /\ results' = [results EXCEPT !["example_cases"] =
            Some(check_example_cases(examples, test_results))]
    /\ UNCHANGED <<test_results, examples, description, expectation_instance,
                   calls, raised, maturity_checklist, execution_engines,
                   package, last_call>>

\* an exception of validate_configuration leaves the evaluator: no CheckMessage
CheckInputValidation ==
    /\ results["input_validation"] = None
    /\ ~raised
    /\ LET run == check_input_validation(expectation_instance, examples)
       IN /\ results' = [results EXCEPT !["input_validation"] = run.returned]
          /\ calls' = calls \o run.invoked
          /\ raised' = (run.returned = None)
    /\ UNCHANGED <<test_results, examples, description, expectation_instance,
                   maturity_checklist, execution_engines, package, last_call>>

CheckRendererMethods ==
    /\ results["renderer_methods"] = None
    /\ results' = [results EXCEPT !["renderer_methods"] =
            Some(check_renderer_methods(expectation_instance))]
    /\ UNCHANGED <<test_results, examples, description, expectation_instance,
                   calls, raised, maturity_checklist, execution_engines,
                   package, last_call>>

CheckLinting ==
    /\ results["linting"] = None
    /\ results' = [results EXCEPT !["linting"] = Some(check_linting(expectation_instance))]
    /\ UNCHANGED <<test_results, examples, description, expectation_instance,
                   calls, raised, maturity_checklist, execution_engines,
                   package, last_call>>

GenerateChecklist ==
    /\ results["generate_checklist"] = None
    /\ results' = [results EXCEPT !["generate_checklist"] =
            Some(generate_checklist(description, maturity_checklist))]
    /\ UNCHANGED <<test_results, examples, description, expectation_instance,
                   calls, raised, maturity_checklist, execution_engines,
                   package, last_call>>

ToJsonDict ==
    /\ results["to_json_dict"] = None
    /\ results' = [results EXCEPT !["to_json_dict"] = Some(to_json_dict(Report))]
    /\ UNCHANGED <<test_results, examples, description, expectation_instance,
                   calls, raised, maturity_checklist, execution_engines,
                   package, last_call>>

\* the value of an attribute of the manifest, None for one it does not hold
Attr(self, attr) == IF attr \in DOMAIN self THEN Some(self[attr]) ELSE None

UpdateExpectations(lists) ==
    \E diagnostics \in lists :
        /\ package' = update_expectations(package, diagnostics)
        /\ last_call' = Some([op |-> "_update_expectations", arg |-> diagnostics,
                              count_before |-> package.expectation_count])
        /\ UNCHANGED <<test_results, examples, description, expectation_instance,
                       results, calls, raised, maturity_checklist, execution_engines>>

UpdateDependencies ==
    \E path \in RequirementsPaths : \E requirements \in parse_requirements(path) :
        /\ package' = update_dependencies(package, path, requirements)
        /\ last_call' = Some([op |-> "_update_dependencies", arg |-> path,
                              count_before |-> package.expectation_count])
        /\ UNCHANGED <<test_results, examples, description, expectation_instance,
                       results, calls, raised, maturity_checklist, execution_engines>>

UpdateFromPackageInfo ==
    \E path \in PackageInfoPaths :
        /\ package' = update_from_package_info(package, path)
        /\ last_call' = Some([op |-> "_update_from_package_info", arg |-> path,
                              count_before |-> package.expectation_count])
        /\ UNCHANGED <<test_results, examples, description, expectation_instance,
                       results, calls, raised, maturity_checklist, execution_engines>>

UpdateContributors ==
    \E diagnostics \in PackageDiagnostics :
        /\ package' = update_contributors(package, diagnostics)
        /\ last_call' = Some([op |-> "_update_contributors", arg |-> diagnostics,
                              count_before |-> package.expectation_count])
        /\ UNCHANGED <<test_results, examples, description, expectation_instance,
                       results, calls, raised, maturity_checklist, execution_engines>>

UpdateAttrsWithDiagnostics ==
    \E diagnostics \in PackageDiagnostics,
       requirements \in parse_requirements("requirements.txt") :
        /\ package' = update_attrs_with_diagnostics(package, diagnostics, requirements)
        /\ last_call' = Some([op |-> "_update_attrs_with_diagnostics", arg |-> diagnostics,
                              count_before |-> package.expectation_count])
        /\ UNCHANGED <<test_results, examples, description, expectation_instance,
                       results, calls, raised, maturity_checklist, execution_engines>>

\* update_package_state: the diagnostics are those the retrieval hands over
UpdatePackageState ==
    \E diagnostics \in PackageDiagnostics,
       requirements \in parse_requirements("requirements.txt") :
        /\ package' = update_attrs_with_diagnostics(package, diagnostics, requirements)
        /\ last_call' = Some([op |-> "update_package_state", arg |-> << >>,
                              count_before |-> package.expectation_count])
        /\ UNCHANGED <<test_results, examples, description, expectation_instance,
                       results, calls, raised, maturity_checklist, execution_engines>>

----------------------------------------------------------------------------
(* The backend checks over every bounded list of test results *)

InitBackend ==
    /\ test_results \in SeqUpTo(TestResult, MaxTests)
    /\ examples = DefaultExamples
    /\ description = DefaultDescription
    /\ expectation_instance = DefaultInstance
    /\ results = NotEvaluated
    /\ calls = << >>
    /\ raised = FALSE
    /\ maturity_checklist = DefaultMaturityChecklist
    /\ execution_engines = DefaultExecutionEngines
    /\ package = NewManifest
    /\ last_call = None

NextBackend == CheckAtLeastOne \/ CheckAllApplicable

SpecBackend == InitBackend /\ [][NextBackend]_vars

(* The docstring, renderer and linting checks over descriptions and member names *)

InitIntrospection ==
    /\ test_results = DefaultTestResults
    /\ examples = DefaultExamples
    /\ description \in Descriptions
    /\ \E own \in SUBSET OwnMemberNames, inh \in InheritedMemberNames :
          expectation_instance =
              [DefaultInstance EXCEPT !.class_dict = own, !.inherited = inh]
    /\ results = NotEvaluated
    /\ calls = << >>
    /\ raised = FALSE
    /\ maturity_checklist = DefaultMaturityChecklist
    /\ execution_engines = DefaultExecutionEngines
    /\ package = NewManifest
    /\ last_call = None

NextIntrospection == CheckDocstring \/ CheckRendererMethods \/ CheckLinting

SpecIntrospection == InitIntrospection /\ [][NextIntrospection]_vars

(* The example-cases check over declared cases and executed tests *)

InitExamples ==
    /\ test_results \in SeqUpTo(ExecutedTest, MaxExecuted)
    /\ examples \in SeqUpTo(OutputGroup, MaxGroups)
    /\ description = DefaultDescription
    /\ expectation_instance = DefaultInstance
    /\ results = NotEvaluated
    /\ calls = << >>
    /\ raised = FALSE
    /\ maturity_checklist = DefaultMaturityChecklist
    /\ execution_engines = DefaultExecutionEngines
    /\ package = NewManifest
    /\ last_call = None

NextExamples == CheckExampleCases

SpecExamples == InitExamples /\ [][NextExamples]_vars

(* The input-validation check over declared cases and checked units *)

InitInputValidation ==
    /\ test_results = DefaultTestResults
    /\ examples \in SeqUpTo(InputGroup, MaxGroups)
    /\ description = DefaultDescription
    /\ \E own \in {{}, {"validate_configuration"}},
          inh \in {{}, {"validate_configuration"}},
          behaviour \in [Inputs -> Outcomes] :
          expectation_instance =
              [DefaultInstance EXCEPT !.class_dict = own, !.inherited = inh,
                                      !.validate_configuration = behaviour]
    /\ results = NotEvaluated
    /\ calls = << >>
    /\ raised = FALSE
    /\ maturity_checklist = DefaultMaturityChecklist
    /\ execution_engines = DefaultExecutionEngines
    /\ package = NewManifest
    /\ last_call = None

NextInputValidation == CheckInputValidation

SpecInputValidation == InitInputValidation /\ [][NextInputValidation]_vars

(* The checklist renderer over maturity checklists *)

InitChecklist ==
    /\ test_results = DefaultTestResults
    /\ examples = DefaultExamples
    /\ \E name \in CamelNames :
          description = [camel_name |-> name,
                         short_description |-> Some("Expect column values to be even")]
    /\ expectation_instance = DefaultInstance
    /\ results = NotEvaluated
    /\ calls = << >>
    /\ raised = FALSE
    /\ maturity_checklist \in MaturityChecklists
    /\ execution_engines = DefaultExecutionEngines
    /\ package = NewManifest
    /\ last_call = None

NextChecklist == GenerateChecklist

SpecChecklist == InitChecklist /\ [][NextChecklist]_vars

(* The serialization adapter over engine applicability and checklists *)

InitJson ==
    /\ test_results \in {DefaultTestResults,
            <<[backend |-> "pandas", test_title |-> "expect_x", test_passed |-> TRUE]>>}
    /\ examples = DefaultExamples
    /\ description = DefaultDescription
    /\ expectation_instance = DefaultInstance
    /\ results = NotEvaluated
    /\ calls = << >>
    /\ raised = FALSE
    /\ maturity_checklist \in JsonChecklists
    /\ execution_engines \in EngineDicts
    /\ package = NewManifest
    /\ last_call = None

NextJson == ToJsonDict

SpecJson == InitJson /\ [][NextJson]_vars

(* The package manifest under any sequence of _update_expectations calls *)

InitExpectations ==
    /\ test_results = DefaultTestResults
    /\ examples = DefaultExamples
    /\ description = DefaultDescription
    /\ expectation_instance = DefaultInstance
    /\ results = NotEvaluated
    /\ calls = << >>
    /\ raised = FALSE
    /\ maturity_checklist = DefaultMaturityChecklist
    /\ execution_engines = DefaultExecutionEngines
    /\ package = NewManifest
    /\ last_call = None

NextExpectations == UpdateExpectations(SeqUpTo(Diagnostic, MaxDiagnostics))

SpecExpectations == InitExpectations /\ [][NextExpectations]_vars

----------------------------------------------------------------------------
(* The package manifest under any sequence of its updaters *)

InitManifest ==
    /\ test_results = DefaultTestResults
    /\ examples = DefaultExamples
    /\ description = DefaultDescription
    /\ expectation_instance = DefaultInstance
    /\ results = NotEvaluated
    /\ calls = << >>
    /\ raised = FALSE
    /\ maturity_checklist = DefaultMaturityChecklist
    /\ execution_engines = DefaultExecutionEngines
    /\ package = NewManifest
    /\ last_call = None

NextManifest ==
    \/ UpdateFromPackageInfo
    \/ UpdateExpectations(PackageDiagnostics)
    \/ UpdateDependencies
    \/ UpdateContributors
    \/ UpdateAttrsWithDiagnostics
    \/ UpdatePackageState

SpecManifest == InitManifest /\ [][NextManifest]_vars

----------------------------------------------------------------------------
(* Reading the evidence and the results, for the properties below *)

Evaluated(c) == results[c] # None
Result(c) == results[c][1]

\* the messages of the sub-messages of a check, in order
SubTexts(c) == [i \in 1..Len(Result(c).sub_messages) |-> Result(c).sub_messages[i].message]

\* how many sub-messages of check c are exactly m
Occurrences(c, m) ==
    Cardinality({i \in 1..Len(Result(c).sub_messages) : Result(c).sub_messages[i] = m})

BackendsSeen == {test_results[i].backend : i \in 1..Len(test_results)}
ResultsOf(b) == {i \in 1..Len(test_results) : test_results[i].backend = b}
PassedOf(b) == {i \in ResultsOf(b) : test_results[i].test_passed}
FullyPassing == {b \in BackendsSeen : PassedOf(b) = ResultsOf(b)}
SomeFailing == {b \in BackendsSeen : PassedOf(b) # ResultsOf(b)}
FailedResults == {i \in 1..Len(test_results) : ~test_results[i].test_passed}

OnlyText(x, y, b) ==
    "Only " \o ToString(x) \o " / " \o ToString(y) \o " tests for " \o b \o " are passing"
AllText(n, b) == "All " \o ToString(n) \o " tests for " \o b \o " are passing"

\* the number of ", " separated items of a non-empty list text
ItemCount(s) == 1 + Cardinality({i \in 1..(Len(s) - 1) : SubSeq(s, i, i + 1) = ", "})

RECURSIVE SumOver(_, _)
SumOver(S, f) ==
    IF S = {} THEN 0
    ELSE LET x == CHOOSE x \in S : TRUE IN f[x] + SumOver(S \ {x}, f)

----------------------------------------------------------------------------
(* C1: with no test results both backend checks fail with the single       *)
(* sub-message "There are no test results" (passed = false) and no         *)
(* backend-count sub-message; with any test results neither check has      *)
(* that sub-message.                                                       *)
C1_NoTestResults ==
    \A c \in {"at_least_one", "all_applicable"} :
        Evaluated(c) =>
            IF Len(test_results) = 0
            THEN /\ Result(c).passed = FALSE
                 /\ Result(c).sub_messages =
                        <<[message |-> "There are no test results", passed |-> FALSE]>>
            ELSE \A i \in 1..Len(Result(c).sub_messages) :
                    Result(c).sub_messages[i].message # "There are no test results"

C1_Witness ==
    /\ Len(test_results) = 0
    /\ Evaluated("at_least_one")
    /\ Evaluated("all_applicable")

(* C2: the at-least-one-backend check passes iff some backend has only     *)
(* passing results, whatever the other backends' results are.              *)
C2_AtLeastOnePasses ==
    Evaluated("at_least_one") =>
        (Result("at_least_one").passed = TRUE <=> FullyPassing # {})

C2_Witness ==
    /\ Evaluated("at_least_one")
    /\ Result("at_least_one").passed = TRUE
    /\ Cardinality(FullyPassing) = 1
    /\ SomeFailing # {}

(* C3: the all-applicable-backends check passes iff some backend fully     *)
(* passes and no backend has a non-passing result, which is the same as:   *)
(* there are test results and every one of them passed.                    *)
C3_AllApplicablePasses ==
    Evaluated("all_applicable") =>
        /\ Result("all_applicable").passed = TRUE
              <=> (FullyPassing # {} /\ SomeFailing = {})
        /\ Result("all_applicable").passed = TRUE
              <=> (Len(test_results) > 0 /\ FailedResults = {})

C3_Witness ==
    /\ Evaluated("all_applicable")
    /\ Result("all_applicable").passed = TRUE
    /\ Cardinality(BackendsSeen) = 2

(* C4: every backend with a failing test gets exactly one sub-message      *)
(* "Only X / Y tests for <backend> are passing" (passed = false) with Y    *)
(* its number of results and X < Y the number that passed; a fully         *)
(* passing backend is reported as passing and never gets an "Only"         *)
(* sub-message.                                                            *)
C4_OnlyFailingBackendsShortfall ==
    Evaluated("all_applicable") =>
        /\ \A b \in SomeFailing :
              LET x == Cardinality(PassedOf(b))
                  y == Cardinality(ResultsOf(b))
              IN /\ x < y
                 /\ Occurrences("all_applicable",
                        [message |-> OnlyText(x, y, b), passed |-> FALSE]) = 1
                 /\ Cardinality({i \in 1..Len(SubTexts("all_applicable")) :
                        /\ StartsWith(SubTexts("all_applicable")[i], "Only ")
                        /\ \E x2, y2 \in 0..Len(test_results) :
                              SubTexts("all_applicable")[i] = OnlyText(x2, y2, b)}) = 1
        /\ \A b \in FullyPassing :
              /\ Occurrences("all_applicable",
                     [message |-> AllText(Cardinality(ResultsOf(b)), b),
                      passed |-> TRUE]) = 1
              /\ \A i \in 1..Len(SubTexts("all_applicable")) :
                    \A x2, y2 \in 0..Len(test_results) :
                        SubTexts("all_applicable")[i] # OnlyText(x2, y2, b)

C4_Witness ==
    /\ Evaluated("all_applicable")
    /\ FullyPassing # {}
    /\ \E b \in SomeFailing : PassedOf(b) # {}

(* C5: the all-applicable-backends check has exactly one "Failing: ..."    *)
(* sub-message (passed = false) iff some test result failed; it lists the  *)
(* titles of the failing results, one per failing result, joined by ", "   *)
(* in the order of test_results; the number of titles is the sum of Y - X  *)
(* over the "Only X / Y" sub-messages.                                     *)
FailingTitles ==
    LET failed == SelectSeq(test_results, LAMBDA r : ~r.test_passed)
    IN [i \in 1..Len(failed) |-> failed[i].test_title]

RECURSIVE CommaList(_)
CommaList(titles) ==
    IF Len(titles) = 1 THEN titles[1]
    ELSE CommaList(SubSeq(titles, 1, Len(titles) - 1)) \o ", " \o titles[Len(titles)]

FailingSubMessages ==
    {i \in 1..Len(SubTexts("all_applicable")) :
        StartsWith(SubTexts("all_applicable")[i], "Failing: ")}

\* Y - X read from the "Only X / Y" sub-message of backend b
Shortfall(b) ==
    LET xy == CHOOSE xy \in (0..Len(test_results)) \X (0..Len(test_results)) :
                  \E i \in 1..Len(SubTexts("all_applicable")) :
                      SubTexts("all_applicable")[i] = OnlyText(xy[1], xy[2], b)
    IN xy[2] - xy[1]

C5_FailingTitles ==
    Evaluated("all_applicable") =>
        /\ Cardinality(FailingSubMessages) = (IF FailedResults # {} THEN 1 ELSE 0)
        /\ Cardinality(FailingSubMessages) \in {0, 1}
        /\ FailedResults # {} =>
              LET i == CHOOSE i \in FailingSubMessages : TRUE
                  text == SubTexts("all_applicable")[i]
                  list == SubSeq(text, Len("Failing: ") + 1, Len(text))
              IN /\ Result("all_applicable").sub_messages[i].passed = FALSE
                 /\ list = CommaList(FailingTitles)
                 /\ Len(FailingTitles) = Cardinality(FailedResults)
                 /\ ItemCount(list) = SumOver(SomeFailing, [b \in SomeFailing |-> Shortfall(b)])

C5_Witness ==
    /\ Evaluated("all_applicable")
    /\ Cardinality(SomeFailing) = 2
    /\ Cardinality(FailedResults) = 3
    /\ \E i, j \in FailedResults : test_results[i].test_title # test_results[j].test_title

(* C6: the docstring check fails without sub-messages when the short       *)
(* description is absent, None, "", "\n" or "TODO: Add a docstring here";  *)
(* for any other short description it passes with exactly one passing      *)
(* sub-message that holds the description unchanged (between double        *)
(* quotes).                                                                *)
DescriptionGiven == "short_description" \in DOMAIN description
                    /\ description.short_description # None
DescriptionText == description.short_description[1]

C6_Docstring ==
    Evaluated("docstring") =>
        IF ~DescriptionGiven
           \/ DescriptionText \in {"", "\n", "TODO: Add a docstring here"}
        THEN /\ Result("docstring").passed = FALSE
             /\ Result("docstring").sub_messages = << >>
        ELSE /\ Result("docstring").passed = TRUE
             /\ Len(Result("docstring").sub_messages) = 1
             /\ Result("docstring").sub_messages[1].passed = TRUE
             /\ LET text == Result("docstring").sub_messages[1].message
                IN /\ Len(text) = Len(DescriptionText) + 2
                   /\ SubSeq(text, 1, 1) = "\""
                   /\ SubSeq(text, Len(text), Len(text)) = "\""
                   /\ SubSeq(text, 2, Len(text) - 1) = DescriptionText

C6_Witness ==
    /\ Evaluated("docstring")
    /\ DescriptionGiven
    /\ DescriptionText = "\n\n"
    /\ Result("docstring").passed = TRUE

(* C7: the renderer check passes iff the kinds of the members named        *)
(* _<kind>_..._renderer, without question and descriptive, are exactly     *)
(* diagnostic and prescriptive.                                            *)
KnownKinds == {"diagnostic", "prescriptive", "question", "descriptive", "atomic"}

KindsOfMembers ==
    {k \in KnownKinds :
        \E name \in expectation_instance.class_dict \cup expectation_instance.inherited :
            /\ StartsWith(name, "_" \o k \o "_")
            /\ EndsWith(name, "_renderer")}

C7_RendererKinds ==
    Evaluated("renderer_methods") =>
        /\ Result("renderer_methods").passed = TRUE
              <=> (KindsOfMembers \ {"question", "descriptive"})
                      = {"diagnostic", "prescriptive"}
        /\ KindsOfMembers = {"diagnostic", "prescriptive"}
              => Result("renderer_methods").passed = TRUE
        /\ KindsOfMembers = {"diagnostic"}
              => Result("renderer_methods").passed = FALSE
        /\ KindsOfMembers = {"diagnostic", "prescriptive", "question"}
              => Result("renderer_methods").passed = TRUE
        /\ KindsOfMembers = {"diagnostic", "prescriptive", "atomic"}
              => Result("renderer_methods").passed = FALSE

C7_Witness ==
    /\ Evaluated("renderer_methods")
    /\ KindsOfMembers = {"diagnostic", "prescriptive", "question"}
    /\ "diagnostic_renderer" \in expectation_instance.class_dict
    /\ Result("renderer_methods").passed = TRUE

(* C8: the example-cases check passes iff some declared case has success   *)
(* = true, some declared case has success = false, and no executed test    *)
(* has test_passed other than true; a case without success counts for      *)
(* neither.                                                                *)
DeclaredCases ==
    {gc \in (1..Len(examples)) \X (1..MaxCases + 1) : gc[2] <= Len(examples[gc[1]].tests)}
CaseOutput(gc) == examples[gc[1]].tests[gc[2]].output
PositiveCases == {gc \in DeclaredCases : CaseOutput(gc) = [success |-> TRUE]}
NegativeCases == {gc \in DeclaredCases : CaseOutput(gc) = [success |-> FALSE]}
UnexpectedTests == {i \in 1..Len(test_results) : test_results[i].test_passed # TRUE}

C8_ExampleCases ==
    Evaluated("example_cases") =>
        /\ Result("example_cases").passed = TRUE
              <=> /\ Cardinality(PositiveCases) > 0
                  /\ Cardinality(NegativeCases) > 0
                  /\ Cardinality(UnexpectedTests) = 0
        /\ (Cardinality(PositiveCases) = 2 /\ Cardinality(NegativeCases) = 0)
              => Result("example_cases").passed = FALSE
        /\ (Cardinality(PositiveCases) = 1 /\ Cardinality(NegativeCases) = 1)
              => (Result("example_cases").passed = TRUE <=> UnexpectedTests = {})

C8_Witness ==
    /\ Evaluated("example_cases")
    /\ Cardinality(PositiveCases) = 1
    /\ Cardinality(NegativeCases) = 1
    /\ Cardinality(DeclaredCases) = 3
    /\ Len(test_results) > 0
    /\ Result("example_cases").passed = TRUE

(* C9: the input-validation check reports "No example found ..." only if   *)
(* no example group declares a test case, also when the first group is     *)
(* empty and a later one is not; with no declared case it returns that     *)
(* failing sub-message and does not raise.                                 *)
NoExampleFound ==
    [message |-> "No example found to get kwargs for ExpectationConfiguration",
     passed |-> FALSE]

SomeCaseDeclared == \E g \in 1..Len(examples) : Len(examples[g].tests) > 0

C9_NoExampleOnlyWithoutCases ==
    (Evaluated("input_validation") \/ raised) =>
        IF SomeCaseDeclared
        THEN /\ Evaluated("input_validation") =>
                    \A i \in 1..Len(Result("input_validation").sub_messages) :
                        Result("input_validation").sub_messages[i] # NoExampleFound
             /\ raised => calls # << >>
        ELSE /\ ~raised
             /\ Evaluated("input_validation")
             /\ Result("input_validation").passed = FALSE
             /\ Result("input_validation").sub_messages = <<NoExampleFound>>

(* C10: when the first example group has a first test case, a unit whose   *)
(* own class does not define validate_configuration fails with the single  *)
(* sub-message "No validate_configuration method defined" and the method   *)
(* is not invoked, even if a parent defines it; a unit that defines it has *)
(* it invoked once with its expectation type and the first case's input,   *)
(* and passed is the value returned, without sub-messages. The missing     *)
(* example comes first, and there is never more than one sub-message.      *)
NoValidateConfiguration ==
    [message |-> "No validate_configuration method defined", passed |-> FALSE]

FirstCaseDeclared == Len(examples) > 0 /\ Len(examples[1].tests) > 0

C10_ValidateConfiguration ==
    (Evaluated("input_validation") \/ raised) =>
        /\ Evaluated("input_validation") =>
              Len(Result("input_validation").sub_messages) <= 1
        /\ ~FirstCaseDeclared =>
              /\ Evaluated("input_validation")
              /\ Result("input_validation").sub_messages = <<NoExampleFound>>
              /\ calls = << >>
        /\ (FirstCaseDeclared
              /\ "validate_configuration" \notin expectation_instance.class_dict) =>
              /\ Evaluated("input_validation")
              /\ Result("input_validation").passed = FALSE
              /\ Result("input_validation").sub_messages = <<NoValidateConfiguration>>
              /\ calls = << >>
        /\ (FirstCaseDeclared
              /\ "validate_configuration" \in expectation_instance.class_dict) =>
              LET input == examples[1].tests[1].input
                  outcome == expectation_instance.validate_configuration[input]
              IN /\ calls = <<[expectation_type |-> expectation_instance.expectation_type,
                               kwargs |-> input]>>
                 /\ ~outcome.raises =>
                       /\ Evaluated("input_validation")
                       /\ Result("input_validation").passed = outcome.value
                       /\ Result("input_validation").sub_messages = << >>

C10_Witness ==
    /\ Evaluated("input_validation")
    /\ FirstCaseDeclared
    /\ expectation_instance.class_dict = {}
    /\ "validate_configuration" \in expectation_instance.inherited
    /\ Result("input_validation").sub_messages = <<NoValidateConfiguration>>

(* C11: if validate_configuration raises when the input-validation check   *)
(* invokes it, the check returns a CheckMessage with passed = false and    *)
(* no exception leaves the evaluator.                                      *)
ValidateConfigurationRaised ==
    /\ calls # << >>
    /\ expectation_instance.validate_configuration[calls[1].kwargs].raises

C11_RaiseIsCaught ==
    /\ ~raised
    /\ ValidateConfigurationRaised =>
          /\ Evaluated("input_validation")
          /\ Result("input_validation").passed = FALSE

(* C12: the linting check fails for every checked unit, with the message   *)
(* "Passes all linting checks" and no sub-messages.                        *)
C12_LintingAlwaysFails ==
    Evaluated("linting") =>
        Result("linting") = [message |-> "Passes all linting checks",
                             passed |-> FALSE, sub_messages |-> << >>]

C12_Witness ==
    /\ Evaluated("linting")
    /\ Evaluated("renderer_methods")
    /\ Result("renderer_methods").passed = TRUE
    /\ Result("linting").passed = FALSE

(* C18: for non-empty test results the sub-messages of the                 *)
(* all-applicable-backends check are: one "All N tests for <backend> are   *)
(* passing" (passed = true) per fully passing backend in order of first    *)
(* occurrence, then one "Only X / Y ..." per backend with a failure in     *)
(* order of first occurrence, then "Failing: ..." if a test failed. Three  *)
(* passing pandas tests and one failing sqlalchemy test expect_x give      *)
(* exactly the three sub-messages of the scenario.                         *)
FirstSeen(S) ==
    LET firsts == SelectSeq([i \in 1..Len(test_results) |-> i],
                     LAMBDA i : /\ test_results[i].backend \in S
                                /\ \A j \in 1..(i - 1) :
                                      test_results[j].backend # test_results[i].backend)
    IN [k \in 1..Len(firsts) |-> test_results[firsts[k]].backend]

ExpectedSubMessages ==
    [k \in 1..Len(FirstSeen(FullyPassing)) |->
        [message |-> AllText(Cardinality(ResultsOf(FirstSeen(FullyPassing)[k])),
                             FirstSeen(FullyPassing)[k]),
         passed |-> TRUE]]
    \o [k \in 1..Len(FirstSeen(SomeFailing)) |->
        [message |-> OnlyText(Cardinality(PassedOf(FirstSeen(SomeFailing)[k])),
                              Cardinality(ResultsOf(FirstSeen(SomeFailing)[k])),
                              FirstSeen(SomeFailing)[k]),
         passed |-> FALSE]]
    \o (IF FailedResults # {}
        THEN <<[message |-> "Failing: " \o CommaList(FailingTitles), passed |-> FALSE]>>
        ELSE << >>)

ScenarioThreePandasOneSqlalchemy ==
    /\ Len(test_results) = 4
    /\ \A i \in 1..3 : test_results[i].backend = "pandas" /\ test_results[i].test_passed
    /\ test_results[4] = [backend |-> "sqlalchemy", test_title |-> "expect_x",
                          test_passed |-> FALSE]

C18_SubMessageOrder ==
    (Evaluated("all_applicable") /\ Len(test_results) > 0) =>
        /\ Result("all_applicable").sub_messages = ExpectedSubMessages
        /\ ScenarioThreePandasOneSqlalchemy =>
              SubTexts("all_applicable") =
                  <<"All 3 tests for pandas are passing",
                    "Only 0 / 1 tests for sqlalchemy are passing",
                    "Failing: expect_x">>

C18_Witness ==
    /\ Evaluated("all_applicable")
    /\ ScenarioThreePandasOneSqlalchemy
    /\ Len(Result("all_applicable").sub_messages) = 3

(* C19: both backend checks take the same backends as fully passing; so    *)
(* when the all-applicable check passes the at-least-one check passes,     *)
(* and when the at-least-one check passes its "All N tests ..."            *)
(* sub-message is the first sub-message of the all-applicable check.       *)
PassingForAtLeastOne == BackendsPassingAllTests(GroupByBackend(test_results, << >>))
PassingForAllApplicable ==
    PassingBackendsLoop(GroupByBackend(test_results, << >>), << >>)

C19_SameClassification ==
    (Evaluated("at_least_one") /\ Evaluated("all_applicable")) =>
        /\ PassingForAtLeastOne = PassingForAllApplicable
        /\ Result("all_applicable").passed => Result("at_least_one").passed
        /\ Result("at_least_one").passed =>
              /\ Len(Result("at_least_one").sub_messages) = 1
              /\ Len(Result("all_applicable").sub_messages) >= 1
              /\ Result("at_least_one").sub_messages[1]
                    = Result("all_applicable").sub_messages[1]
              /\ StartsWith(SubTexts("at_least_one")[1], "All ")

C19_Witness ==
    /\ Evaluated("at_least_one")
    /\ Evaluated("all_applicable")
    /\ Result("at_least_one").passed
    /\ ~Result("all_applicable").passed
    /\ test_results[1].test_passed = FALSE

(* C13: the checklist text is the line "Completeness checklist for         *)
(* <name>:", then for every check - experimental, then beta, then          *)
(* production, each tier in stored order - its line followed by the lines  *)
(* of its sub-messages in order at a deeper indent; a line has the         *)
(* checkmark iff its own passed flag is true and padding of the same       *)
(* width otherwise; the text ends with a newline. Amended: the number of   *)
(* line breaks is 1 + checks + sub-messages plus the line breaks inside    *)
(* the name and the messages (so the line count is 1 + checks +            *)
(* sub-messages when those hold no line break).                            *)
ChecklistText == Result("generate_checklist")
AllChecks == maturity_checklist.experimental \o maturity_checklist.beta
                 \o maturity_checklist.production

CheckPrefix(passed) == IF passed THEN " + " ELSE "   "
SubPrefix(passed) == IF passed THEN "    + " ELSE "      "

\* the lines of one check: its own, then one per sub-message
BlockOf(check) ==
    <<CheckPrefix(check.passed) \o check.message>>
    \o [i \in 1..Len(check.sub_messages) |->
            SubPrefix(check.sub_messages[i].passed) \o check.sub_messages[i].message]

RECURSIVE Blocks(_)
Blocks(checks) ==
    IF Len(checks) = 0 THEN << >>
    ELSE Blocks(SubSeq(checks, 1, Len(checks) - 1)) \o BlockOf(checks[Len(checks)])

ExpectedLines ==
    <<"Completeness checklist for " \o description.camel_name \o ":">> \o Blocks(AllChecks)

\* every line followed by a line break
RECURSIVE Terminated(_)
Terminated(lines) ==
    IF Len(lines) = 0 THEN ""
    ELSE Terminated(SubSeq(lines, 1, Len(lines) - 1)) \o lines[Len(lines)] \o "\n"

LineBreaks(text) == Cardinality({i \in 1..Len(text) : SubSeq(text, i, i) = "\n"})

SubMessageCount == SumOver(DOMAIN AllChecks,
                           [i \in DOMAIN AllChecks |-> Len(AllChecks[i].sub_messages)])

\* line breaks inside the name and the messages
InnerLineBreaks ==
    SumOver(DOMAIN ExpectedLines,
            [i \in DOMAIN ExpectedLines |-> LineBreaks(ExpectedLines[i])])

ChecklistStructure ==
    /\ ChecklistText = Terminated(ExpectedLines)
    /\ Len(ExpectedLines) = 1 + Len(AllChecks) + SubMessageCount
    /\ SubSeq(ChecklistText, Len(ChecklistText), Len(ChecklistText)) = "\n"
    /\ Len(CheckPrefix(TRUE)) = Len(CheckPrefix(FALSE))
    /\ Len(SubPrefix(TRUE)) = Len(SubPrefix(FALSE))
    /\ Len(SubPrefix(TRUE)) > Len(CheckPrefix(TRUE))

\* the claim as stated: the lines of the text are 1 + checks + sub-messages
C13_LineCountAsClaimed ==
    Evaluated("generate_checklist") =>
        /\ ChecklistStructure
        /\ LineBreaks(ChecklistText) = 1 + Len(AllChecks) + SubMessageCount

C13_ChecklistText ==
    Evaluated("generate_checklist") =>
        /\ ChecklistStructure
        /\ LineBreaks(ChecklistText)
              = 1 + Len(AllChecks) + SubMessageCount + InnerLineBreaks
        /\ InnerLineBreaks = 0 =>
              LineBreaks(ChecklistText) = 1 + Len(AllChecks) + SubMessageCount

C13_Witness ==
    /\ Evaluated("generate_checklist")
    /\ Len(maturity_checklist.experimental) = 1
    /\ Len(maturity_checklist.beta) = 2
    /\ Len(maturity_checklist.production) = 2
    /\ maturity_checklist.production[1] # maturity_checklist.production[2]
    /\ ~maturity_checklist.production[1].passed
    /\ maturity_checklist.production[1].sub_messages[1].passed
    /\ InnerLineBreaks = 0

(* C14: to_json_dict adds execution_engines_list: sorted ascending,        *)
(* without duplicates, holding exactly the engines whose applicability is  *)
(* true; every other field of the result has the value it has in the       *)
(* report, the passed flags of the maturity checklist included, and the    *)
(* report is left unchanged.                                               *)
JsonDict == Result("to_json_dict")

ApplicableEngineSet ==
    {execution_engines[i].key :
        i \in {j \in 1..Len(execution_engines) : execution_engines[j].value = TRUE}}

EnginesAscending ==
    <<"PandasExecutionEngine", "SparkDFExecutionEngine", "SqlAlchemyExecutionEngine">>

ReportFields == {"examples", "description", "execution_engines", "tests",
                 "maturity_checklist"}

JsonDictAsClaimed ==
    Evaluated("to_json_dict") =>
        /\ DOMAIN JsonDict = ReportFields \cup {"execution_engines_list"}
        /\ JsonDict.execution_engines_list
              = SelectSeq(EnginesAscending, LAMBDA e : e \in ApplicableEngineSet)
        /\ \A i, j \in 1..Len(JsonDict.execution_engines_list) :
              i < j => StrLess(JsonDict.execution_engines_list[i],
                               JsonDict.execution_engines_list[j])
        /\ \A f \in ReportFields : JsonDict[f] = Report[f]
        /\ JsonDict.maturity_checklist = maturity_checklist

C14_ToJsonDict ==
    /\ []JsonDictAsClaimed
    /\ [][Report' = Report]_vars

C14_Witness ==
    /\ Evaluated("to_json_dict")
    /\ Len(execution_engines) = 3
    /\ execution_engines[1] = [key |-> "SqlAlchemyExecutionEngine", value |-> TRUE]
    /\ execution_engines[2] = [key |-> "SparkDFExecutionEngine", value |-> FALSE]
    /\ execution_engines[3] = [key |-> "PandasExecutionEngine", value |-> TRUE]
    /\ Len(maturity_checklist.experimental) = 1

(* C15: _update_expectations sets the package maturity to the maturity     *)
(* that occurs most often among the given diagnostics; of several          *)
(* maturities with the highest count the one declared first in Maturity    *)
(* is chosen, so no diagnostics give CONCEPT_ONLY and diagnostics that     *)
(* are all PRODUCTION give PRODUCTION.                                     *)
LastCall == last_call[1]

UpdatedExpectations == last_call # None /\ LastCall.op = "_update_expectations"

CountOf(diagnostics, m) ==
    Cardinality({i \in 1..Len(diagnostics) : diagnostics[i].library_metadata.maturity = m})

MostFrequentDeclaredFirst(diagnostics) ==
    LET n(i) == CountOf(diagnostics, Maturity[i])
    IN Maturity[CHOOSE i \in 1..Len(Maturity) :
                    /\ \A j \in 1..Len(Maturity) : n(j) <= n(i)
                    /\ \A j \in 1..(i - 1) : n(j) < n(i)]

C15_MostFrequentMaturity ==
    UpdatedExpectations =>
        /\ package.maturity = Some(MostFrequentDeclaredFirst(LastCall.arg))
        /\ Len(LastCall.arg) = 0 => package.maturity = Some("CONCEPT_ONLY")
        /\ (/\ Len(LastCall.arg) > 0
            /\ \A i \in 1..Len(LastCall.arg) :
                  LastCall.arg[i].library_metadata.maturity = "PRODUCTION")
              => package.maturity = Some("PRODUCTION")

C15_Witness ==
    /\ UpdatedExpectations
    /\ CountOf(LastCall.arg, "BETA") = 1
    /\ CountOf(LastCall.arg, "EXPERIMENTAL") = 1
    /\ CountOf(LastCall.arg, "CONCEPT_ONLY") = 0
    /\ CountOf(LastCall.arg, "PRODUCTION") <= 1
    /\ package.maturity = Some("EXPERIMENTAL")

(* C16: after any sequence of _update_expectations calls the manifest      *)
(* reflects only the last call: expectations is its diagnostics in order,  *)
(* expectation_count = len(expectations) = status.total, the four          *)
(* counters add up to status.total, and each counter is the number of      *)
(* diagnostics of the last call with that maturity.                        *)
C16_OnlyLastCall ==
    UpdatedExpectations =>
        LET status == package.status[1]
        IN /\ package.expectations = Some(LastCall.arg)
           /\ package.expectation_count = Some(Len(package.expectations[1]))
           /\ status.total = Len(package.expectations[1])
           /\ status.concept_only + status.experimental + status.beta
                + status.production = status.total
           /\ status.concept_only = CountOf(LastCall.arg, "CONCEPT_ONLY")
           /\ status.experimental = CountOf(LastCall.arg, "EXPERIMENTAL")
           /\ status.beta = CountOf(LastCall.arg, "BETA")
           /\ status.production = CountOf(LastCall.arg, "PRODUCTION")

C16_Witness ==
    /\ UpdatedExpectations
    /\ LastCall.count_before # None
    /\ Len(LastCall.arg) > 0
    /\ LastCall.count_before[1] > Len(LastCall.arg)
    /\ package.status[1].total = Len(LastCall.arg)

(* C17: the file-driven updaters are no-ops on unusable input:             *)
(* _update_dependencies with a path that does not exist leaves             *)
(* dependencies as it was, and _update_from_package_info with a path that  *)
(* does not exist, or with a file that parses to nothing, leaves           *)
(* code_owners, domain_experts, package_name, icon and description as      *)
(* they were; neither raises.                                              *)
PackageInfoAttrs == {"code_owners", "domain_experts", "package_name", "icon", "description"}

Calling(op) == last_call' # None /\ last_call'[1].op = op

C17_NoOpOnUnusableInput ==
    [][/\ (Calling("_update_dependencies") /\ ~os_path_exists(last_call'[1].arg))
            => Attr(package', "dependencies") = Attr(package, "dependencies")
       /\ (/\ Calling("_update_from_package_info")
           /\ \/ ~os_path_exists(last_call'[1].arg)
              \/ yaml_load(last_call'[1].arg) = None)
            => \A a \in PackageInfoAttrs : Attr(package', a) = Attr(package, a)
       /\ (Calling("_update_dependencies") \/ Calling("_update_from_package_info"))
            => ~raised']_vars

C17_Witness ==
    /\ last_call # None
    /\ LastCall.op = "_update_from_package_info"
    /\ LastCall.arg = "empty.yml"
    /\ "code_owners" \in DOMAIN package
    /\ package.domain_experts # None
    /\ package.package_name # None
    /\ package.dependencies # None

====
